---- MODULE Spec2Model ----
(***************************************************************************)
(* CUDAStream<T> of platforms/cuda/src/kernels/cudatypes.h: a buffer kept  *)
(* both in host memory and in device memory, cut into sub-streams of a     *)
(* padded stride, with Allocate / Deallocate / Upload / Download /         *)
(* Collapse and the RTERROR error macro.                                   *)
(*                                                                         *)
(* Memory contents are symbolic: every element of a fresh allocation holds *)
(* a token of its own (new T[] and cudaMalloc do not initialise), so a     *)
(* data movement is visible as a movement of tokens.                       *)
(***************************************************************************)
EXTENDS Integers, Sequences, FiniteSets, TLC

(***************************************************************************)
(* Bounds of the model.                                                    *)
(***************************************************************************)
MaxLen        == 2   \* constructor lengths 1..MaxLen (and one full row)
MaxSubStreams == 4   \* constructor subStreams 1..MaxSubStreams
MaxNewStreams == 3   \* Collapse(newstreams), newstreams in 1..MaxNewStreams
MaxAllocs     == 2   \* calls of Allocate() on one object
MaxOps        == 3   \* public calls made on one object after construction

(***************************************************************************)
(* unsigned int arithmetic, 32 bits wide, on a pair of 16-bit halves.      *)
(***************************************************************************)
Half == 2^16

U32(hi, lo) == [hi |-> hi, lo |-> lo]

\* a small natural number as an unsigned int
FromNat(n) == U32(n \div Half, n % Half)

\* the value of an unsigned int below 2^31
ToNat(a) == a.hi * Half + a.lo

\* a + b, wrapping at 2^32
Add32(a, b) ==
    LET lo == a.lo + b.lo
    IN  U32((a.hi + b.hi + lo \div Half) % Half, lo % Half)

RECURSIVE BitAnd(_, _)
BitAnd(x, y) ==
    IF x = 0 \/ y = 0 THEN 0
    ELSE (x % 2) * (y % 2) + 2 * BitAnd(x \div 2, y \div 2)

\* a & b
And32(a, b) == U32(BitAnd(a.hi, b.hi), BitAnd(a.lo, b.lo))

\* a * n, wrapping at 2^32, for a multiplier n below 2^15
Mul32(a, n) ==
    LET lo == a.lo * n
    IN  U32((a.hi * n + lo \div Half) % Half, lo % Half)

\* a < b and a <= b on unsigned ints
Less32(a, b) == a.hi < b.hi \/ (a.hi = b.hi /\ a.lo < b.lo)
Leq32(a, b)  == a = b \/ Less32(a, b)

\* the literals of the constructors' initialiser of _stride
LIT_0xf        == FromNat(15)
LIT_0xfffffff0 == U32(Half - 1, Half - 16)

\* the initialiser of _stride without its mask: length + 0xf
AlignedStride_NoMask(length) == Add32(length, LIT_0xf)

\* _stride((length + 0xf) & 0xfffffff0)
AlignedStride(length) == And32(Add32(length, LIT_0xf), LIT_0xfffffff0)

\* the same on the small lengths of the buffer model
StrideOf(length) == ToNat(AlignedStride(FromNat(length)))

\* _subStreams * _stride, the element count of new T[] and of cudaMalloc
ElemCount(stride, subStreams) == Mul32(stride, subStreams)

(***************************************************************************)
(* The buffer object.                                                      *)
(***************************************************************************)
VARIABLES
    pc,            \* "ctor", "live", "destroyed", "exited" (exit(-1)), "crashed"
    _length, _subStreams, _stride,
    _pSysStream,   \* 0 (NULL) or the number of the allocation it points into
    _pDevStream,
    _pSysData,
    _pDevData,
    sysStreamTab,  \* the entries _pSysStream[i]: offsets from _pSysData
    devStreamTab,  \* the entries _pDevStream[i]: offsets from _pDevData
    tableSize,     \* the entries new T*[_subStreams] gave each table
    sysData,       \* the elements of the host storage
    devData,       \* the elements of the device storage
    dataSize,      \* the elements new T[] and cudaMalloc gave each storage
    heap,          \* every block ever allocated: its state and its releases
    nAllocs,       \* calls of Allocate() so far
    nOps,          \* public calls so far
    fault,         \* the CUDA call that returned an error, or "none"
    hist           \* the last two public calls with the state each started in

VARIABLES
    c_pc,          \* "args", "fields", "allocated"
    c_length, c_subStreams, c_stride,
    c_sysElems,    \* the element count handed to new T[]
    c_devElems     \* the element count handed to cudaMalloc

bufvars == <<pc, _length, _subStreams, _stride, _pSysStream, _pDevStream,
             _pSysData, _pDevData, sysStreamTab, devStreamTab, tableSize,
             sysData, devData, dataSize, heap, nAllocs, nOps, fault, hist>>
ctorvars == <<c_pc, c_length, c_subStreams, c_stride, c_sysElems, c_devElems>>
vars == <<bufvars, ctorvars>>

Kinds == {"sysStream", "devStream", "sysData", "devData"}
Blocks == (1..MaxAllocs) \X Kinds

\* a pointer that is not an address of the table's or storage's own
Wild == 0 - 1
\* a table slot nothing has been stored in
Unset == 0 - 2
\* what a read through a wild pointer yields
WildValue == 0 - 1

Max(a, b) == IF a >= b THEN a ELSE b

\* the slots a table pointer can be indexed with in this model; the slots
\* from tableSize on lie behind the end of the table
TabSlots == 0..(Max(MaxSubStreams, MaxNewStreams) - 1)

\* the uninitialised contents of the g-th host and device storage and of
\* the scratch buffer: one token per element
SysToken(g, x)  == g * 1000 + x
DevToken(g, x)  == g * 1000 + 500 + x
TempToken(x)    == 9000 + x

Lengths == (1..MaxLen) \cup {StrideOf(1)}

Snapshot(op, arg) ==
    [op |-> op, arg |-> arg, length |-> _length, subStreams |-> _subStreams,
     stride |-> _stride, sysData |-> sysData, devData |-> devData,
     sysTab |-> sysStreamTab, devTab |-> devStreamTab, tableSize |-> tableSize,
     dataSize |-> dataSize]

\* hist after a call of op(arg) from the current state
Logged(op, arg) ==
    IF Len(hist) < 2 THEN Append(hist, Snapshot(op, arg))
    ELSE <<hist[2], Snapshot(op, arg)>>

\* RTERROR without its exit(-1): the message is printed and the caller goes on
RTERROR_NoExit(status, next) == next

\* RTERROR(status, s): exit(-1) unless status is cudaSuccess
RTERROR(status, next) == IF status # "cudaSuccess" THEN "exited" ELSE next

Status == {"cudaSuccess", "cudaError"}

NoTable == [i \in TabSlots |-> Unset]

\* the state the member initialisers of a constructor leave: the three
\* fields set, the four pointers not yet assigned
Init ==
    /\ pc = "ctor"
    /\ _length \in Lengths
    /\ _subStreams \in 1..MaxSubStreams
    /\ _stride = StrideOf(_length)
    /\ _pSysStream = 0 /\ _pDevStream = 0 /\ _pSysData = 0 /\ _pDevData = 0
    /\ sysStreamTab = NoTable /\ devStreamTab = NoTable
    /\ tableSize = 0
    /\ sysData = <<>> /\ devData = <<>>
    /\ dataSize = 0
    /\ heap = [b \in Blocks |-> [st |-> "none", frees |-> 0]]
    /\ nAllocs = 0 /\ nOps = 0
    /\ fault = "none"
    /\ hist = <<>>
    /\ c_pc = "idle" /\ c_length = FromNat(0) /\ c_subStreams = 0
    /\ c_stride = FromNat(0) /\ c_sysElems = FromNat(0) /\ c_devElems = FromNat(0)

\* for (i < _subStreams) _pSysStream[i] = _pSysData + i * _stride
InitialViews == [i \in TabSlots |-> IF i < _subStreams THEN i * _stride ELSE Unset]

\* Allocate(): three new[] and one cudaMalloc whose status is the device
\* allocator's answer; RTERROR exits before the views are set
AllocateBody(status) ==
    LET g == nAllocs + 1
        n == ToNat(ElemCount(FromNat(_stride), _subStreams))
    IN  /\ nAllocs < MaxAllocs
        /\ nAllocs' = g
        /\ _pSysStream' = g /\ _pDevStream' = g /\ _pSysData' = g
        /\ tableSize' = _subStreams
        /\ dataSize' = n
        /\ sysData' = [x \in 0..(n - 1) |-> SysToken(g, x)]
        /\ pc' = RTERROR(status, "live")
        /\ IF status = "cudaSuccess"
           THEN /\ _pDevData' = g
                /\ devData' = [x \in 0..(n - 1) |-> DevToken(g, x)]
                /\ heap' = [b \in Blocks |->
                              IF b[1] = g THEN [st |-> "live", frees |-> 0]
                              ELSE heap[b]]
                /\ sysStreamTab' = InitialViews
                /\ devStreamTab' = InitialViews
                /\ fault' = fault
           ELSE /\ _pDevData' = _pDevData
                /\ devData' = devData
                /\ heap' = [b \in Blocks |->
                              IF b[1] = g /\ b[2] # "devData"
                              THEN [st |-> "live", frees |-> 0]
                              ELSE heap[b]]
                /\ sysStreamTab' = NoTable
                /\ devStreamTab' = NoTable
                /\ fault' = "cudaMalloc"
        /\ UNCHANGED <<_length, _subStreams, _stride>>

\* the constructors: the initialiser list, then Allocate()
Construct ==
    /\ pc = "ctor"
    /\ \E status \in Status : AllocateBody(status)
    /\ UNCHANGED <<nOps, hist, ctorvars>>

\* a second Allocate() on a constructed object
Allocate ==
    /\ pc = "live"
    /\ nOps < MaxOps
    /\ \E status \in Status : AllocateBody(status)
    /\ nOps' = nOps + 1
    /\ hist' = Logged("Allocate", 0)
    /\ UNCHANGED ctorvars

\* a Collapse has stored table entries behind the end of the tables
HeapOverrun ==
    /\ _pSysStream # 0
    /\ \E i \in TabSlots : i >= tableSize /\ sysStreamTab[i] # Unset

\* delete[] p
Delete(h, p, kind) ==
    IF p = 0 THEN h
    ELSE [h EXCEPT ![<<p, kind>>] = [st |-> "freed", frees |-> @.frees + 1]]

\* cudaFree(p): an error for a pointer that is not a live device allocation
CudaFreeStatus(p) ==
    IF p = 0 \/ heap[<<p, "devData">>].st = "live" THEN "cudaSuccess"
    ELSE "cudaError"

\* Deallocate(): the three delete[] with their pointers set to NULL, then
\* cudaFree(_pDevData), which leaves _pDevData as it is
DeallocateBody(next) ==
    LET status == CudaFreeStatus(_pDevData)
        h1 == Delete(heap, _pSysStream, "sysStream")
        h2 == Delete(h1, _pDevStream, "devStream")
        h3 == Delete(h2, _pSysData, "sysData")
    IN  /\ _pSysStream' = 0 /\ _pDevStream' = 0 /\ _pSysData' = 0
        /\ heap' = Delete(h3, _pDevData, "devData")
        /\ pc' = RTERROR(status, next)
        /\ fault' = IF status = "cudaSuccess" THEN fault ELSE "cudaFree"
        /\ UNCHANGED <<_length, _subStreams, _stride, _pDevData, sysStreamTab,
                       devStreamTab, tableSize, sysData, devData, dataSize,
                       nAllocs>>

\* delete[] of a table whose end was overrun: the allocator may abort
DeleteOverrun ==
    /\ pc' = "crashed"
    /\ UNCHANGED <<_length, _subStreams, _stride, _pSysStream, _pDevStream,
                   _pSysData, _pDevData, sysStreamTab, devStreamTab, tableSize,
                   sysData, devData, dataSize, heap, nAllocs, fault>>

Deallocate ==
    /\ pc = "live"
    /\ nOps < MaxOps
    /\ \/ DeallocateBody("live")
       \/ HeapOverrun /\ DeleteOverrun
    /\ nOps' = nOps + 1
    /\ hist' = Logged("Deallocate", 0)
    /\ UNCHANGED ctorvars

\* ~CUDAStream(): Deallocate()
Destroy ==
    /\ pc = "live"
    /\ \/ DeallocateBody("destroyed")
       \/ HeapOverrun /\ DeleteOverrun
    /\ hist' = Logged("Destroy", 0)
    /\ UNCHANGED <<nOps, ctorvars>>

\* _pSysData and _pDevData both point at live storage
StoragesLive ==
    /\ _pSysData # 0 /\ heap[<<_pSysData, "sysData">>].st = "live"
    /\ _pDevData # 0 /\ heap[<<_pDevData, "devData">>].st = "live"

\* cudaMemcpy(dst, src, count * sizeof(T), kind) that succeeds
Memcpy(dst, src, count) ==
    [x \in DOMAIN dst |-> IF x < count /\ x \in DOMAIN src THEN src[x] ELSE dst[x]]

\* the element count of both transfers: _stride * _subStreams
TransferCount == ToNat(ElemCount(FromNat(_stride), _subStreams))

\* the statuses cudaMemcpy can return: an error for pointers that are not
\* live storage (NULL after Deallocate(), a freed device pointer), otherwise
\* whatever the device answers
MemcpyStatus == IF StoragesLive THEN Status ELSE {"cudaError"}

\* Upload with the first two arguments of cudaMemcpy exchanged
HostToDevice_Swapped ==
    [sys |-> Memcpy(sysData, devData, TransferCount), dev |-> devData]

\* cudaMemcpy(_pDevData, _pSysData, ..., cudaMemcpyHostToDevice): the two
\* storages after the copy
HostToDevice ==
    [sys |-> sysData, dev |-> Memcpy(devData, sysData, TransferCount)]

\* cudaMemcpy(_pSysData, _pDevData, ..., cudaMemcpyDeviceToHost)
DeviceToHost ==
    [sys |-> Memcpy(sysData, devData, TransferCount), dev |-> devData]

\* Upload(): cudaMemcpy host to device, then RTERROR
Upload ==
    /\ pc = "live"
    /\ nOps < MaxOps
    /\ \E status \in MemcpyStatus :
          /\ pc' = RTERROR(status, "live")
          /\ devData' = IF status = "cudaSuccess" THEN HostToDevice.dev ELSE devData
          /\ sysData' = IF status = "cudaSuccess" THEN HostToDevice.sys ELSE sysData
          /\ fault' = IF status = "cudaSuccess" THEN fault ELSE "cudaMemcpyHostToDevice"
    /\ nOps' = nOps + 1
    /\ hist' = Logged("Upload", 0)
    /\ UNCHANGED <<_length, _subStreams, _stride, _pSysStream, _pDevStream,
                   _pSysData, _pDevData, sysStreamTab, devStreamTab, tableSize,
                   dataSize, heap, nAllocs, ctorvars>>

\* Download(): cudaMemcpy device to host, then RTERROR
Download ==
    /\ pc = "live"
    /\ nOps < MaxOps
    /\ \E status \in MemcpyStatus :
          /\ pc' = RTERROR(status, "live")
          /\ devData' = IF status = "cudaSuccess" THEN DeviceToHost.dev ELSE devData
          /\ sysData' = IF status = "cudaSuccess" THEN DeviceToHost.sys ELSE sysData
          /\ fault' = IF status = "cudaSuccess" THEN fault ELSE "cudaMemcpyDeviceToHost"
    /\ nOps' = nOps + 1
    /\ hist' = Logged("Download", 0)
    /\ UNCHANGED <<_length, _subStreams, _stride, _pSysStream, _pDevStream,
                   _pSysData, _pDevData, sysStreamTab, devStreamTab, tableSize,
                   dataSize, heap, nAllocs, ctorvars>>

(***************************************************************************)
(* Collapse(newstreams, interleave).  interleave is never read.            *)
(***************************************************************************)
\* _pSysStream[j][i] read through table tab from storage data
ReadView(tab, data, j, i) ==
    LET base == tab[j]
    IN  IF base < 0 \/ (base + i) \notin DOMAIN data THEN WildValue
        ELSE data[base + i]

\* the greatest element of a non-empty set of numbers
Last(S) == CHOOSE k \in S : \A m \in S : m <= k

\* the index of pTemp[stream * newstride + pos] in pass k of the first loop
\* nest, where stream = k % newstreams and pos = k \div newstreams
TempStoreIndex(k, newstreams, newstride) ==
    (k % newstreams) * newstride + k \div newstreams

\* "Copy data into new format": the loop nest over i < _length and
\* j < _subStreams.  Its k-th pass (k = i * _subStreams + j, counted from 0)
\* finds the counters at stream = k % newstreams and pos = k \div newstreams
\* and stores _pSysStream[j][i] at pTemp[stream * newstride + pos]; an
\* element of pTemp ends as its last store left it
CopyIntoNewFormat(newstreams, newstride, pTemp) ==
    LET Passes == 0..(_length * _subStreams - 1)
        Index(k) == TempStoreIndex(k, newstreams, newstride)
        Value(k) == ReadView(sysStreamTab, sysData, k % _subStreams, k \div _subStreams)
    IN  [x \in DOMAIN pTemp |->
            \* the passes that store at x: one candidate per value of stream
            LET C == {(x - st * newstride) * newstreams + st : st \in 0..(newstreams - 1)}
                W == {k \in C \cap Passes : Index(k) = x}
            IN  IF W = {} THEN pTemp[x] ELSE Value(Last(W))]

\* the table indices the remap loop stores at: for (i = 0; i < newstreams; i++)
RemapIndices(newstreams) == 0..(newstreams - 1)

\* "Remap stream pointers": entries i < newstreams of a table of tableSize
\* entries.  An entry behind the end of the table is a store into memory
\* the table does not own: it either reads back as stored ("kept") or as
\* whatever the owner of that memory put there ("clobbered")
RemapPointers(tab, newstreams, newstride, ub) ==
    [i \in TabSlots |->
        IF i \notin RemapIndices(newstreams) THEN tab[i]
        ELSE IF i < tableSize \/ ub = "kept" THEN i * newstride
        ELSE Wild]

\* the index of pTemp[j * newstride + i] in the copy back
TempLoadIndex(j, i, newstride) == j * newstride + i

\* the element of the host storage that _pSysStream[j][i] names in the copy
\* back, Wild when the entry j of the table is no pointer into the storage
HostStoreTarget(tab, j, i) == IF tab[j] < 0 THEN Wild ELSE tab[j] + i

\* pTemp[idx]
LoadTemp(pTemp, idx) == IF idx \in DOMAIN pTemp THEN pTemp[idx] ELSE WildValue

\* "Copy data back": the loop nest over i < newlength and j < newstreams.
\* Its m-th pass (m = i * newstreams + j) stores pTemp[j * newstride + i] at
\* _pSysStream[j][i] through the remapped table; a store through a wild
\* pointer or behind the end of the storage does not reach the storage
CopyBack(newlength, newstreams, newstride, tab, pTemp, data) ==
    LET Passes == 0..(newlength * newstreams - 1)
        J(m) == m % newstreams
        I(m) == m \div newstreams
    IN  [y \in DOMAIN data |->
            \* the passes that store at y: one candidate per sub-stream j
            LET C == {(y - tab[j]) * newstreams + j : j \in 0..(newstreams - 1)}
                W == {m \in C \cap Passes : HostStoreTarget(tab, J(m), I(m)) = y}
            IN  IF W = {} THEN data[y]
                ELSE LoadTemp(pTemp, TempLoadIndex(J(Last(W)), I(Last(W)), newstride))]

\* new T[_subStreams * _stride], uninitialised
NewTemp == [x \in 0..(ToNat(ElemCount(FromNat(_stride), _subStreams)) - 1) |-> TempToken(x)]

\* what a Collapse can make of stores behind the end of the tables
Outcomes(newstreams) ==
    IF newstreams > tableSize THEN {"kept", "clobbered", "fault"} ELSE {"kept"}

\* unsigned int newstride = _stride * _subStreams / newstreams
NewStride(newstreams) == (_stride * _subStreams) \div newstreams

\* unsigned int newlength = _length * _subStreams / newstreams
NewLength(newstreams) == (_length * _subStreams) \div newstreams

\* the host side of a Collapse that returns: the remapped tables, the host
\* storage after the copy back, the three fields
CollapsedHost(newstreams, ub) ==
    LET newstride == NewStride(newstreams)
        newlength == NewLength(newstreams)
        pTemp     == CopyIntoNewFormat(newstreams, newstride, NewTemp)
        sysTab    == RemapPointers(sysStreamTab, newstreams, newstride, ub)
        devTab    == RemapPointers(devStreamTab, newstreams, newstride, ub)
    IN  [sysTab |-> sysTab, devTab |-> devTab,
         sysData |-> CopyBack(newlength, newstreams, newstride, sysTab, pTemp, sysData),
         stride |-> newstride, length |-> newlength, subStreams |-> newstreams]

\* a Collapse that ends with an Upload() of the reshaped storage
CollapseResult_Uploads(newstreams, ub) ==
    LET h == CollapsedHost(newstreams, ub)
    IN  [host |-> h, devData |-> Memcpy(devData, h.sysData, h.stride * h.subStreams)]

\* the state a Collapse that returns leaves: the host side reshaped, the
\* device storage as it was (Collapse makes no CUDA call)
CollapseResult(newstreams, ub) ==
    [host |-> CollapsedHost(newstreams, ub), devData |-> devData]

Collapse(newstreams) ==
    /\ pc = "live"
    /\ nOps < MaxOps
    /\ nOps' = nOps + 1
    /\ hist' = Logged("Collapse", newstreams)
    /\ UNCHANGED <<_pSysStream, _pDevStream, _pSysData, _pDevData, tableSize,
                   dataSize, heap, nAllocs, fault, ctorvars>>
    /\ IF _pSysStream = 0
       THEN \* the tables are gone: _pSysStream[j][i] is a load through NULL
            /\ pc' = "crashed"
            /\ UNCHANGED <<_length, _subStreams, _stride, sysStreamTab,
                           devStreamTab, sysData, devData>>
       ELSE \E ub \in Outcomes(newstreams) :
            IF ub = "fault"
            THEN \* the store behind the table, or the access through what
                 \* it reads back as, ends the process
                 /\ pc' = "crashed"
                 /\ UNCHANGED <<_length, _subStreams, _stride, sysStreamTab,
                                devStreamTab, sysData, devData>>
            ELSE \E r \in {CollapseResult(newstreams, ub)} :
                     /\ pc' = "live"
                     /\ sysStreamTab' = r.host.sysTab
                     /\ devStreamTab' = r.host.devTab
                     /\ sysData' = r.host.sysData
                     /\ devData' = r.devData
                     /\ _stride' = r.host.stride
                     /\ _length' = r.host.length
                     /\ _subStreams' = r.host.subStreams

Next ==
    \/ Construct
    \/ Allocate
    \/ Deallocate
    \/ Destroy
    \/ Upload
    \/ Download
    \/ \E newstreams \in 1..MaxNewStreams : Collapse(newstreams)

Spec == Init /\ [][Next]_vars

(***************************************************************************)
(* The constructor on the whole range of unsigned int:                     *)
(* CUDAStream(unsigned int length, unsigned int subStreams, name), as far  *)
(* as the three fields and the element counts it asks the allocators for.  *)
(***************************************************************************)
\* lengths 0..CtorSpan and 2^32-1-CtorSpan..2^32-1
CtorSpan == 17

CtorLengths ==
    {FromNat(n) : n \in 0..CtorSpan} \cup {U32(Half - 1, Half - 1 - n) : n \in 0..CtorSpan}

BufIdle ==
    /\ pc = "idle"
    /\ _length = 0 /\ _subStreams = 0 /\ _stride = 0
    /\ _pSysStream = 0 /\ _pDevStream = 0 /\ _pSysData = 0 /\ _pDevData = 0
    /\ sysStreamTab = NoTable /\ devStreamTab = NoTable
    /\ tableSize = 0
    /\ sysData = <<>> /\ devData = <<>>
    /\ dataSize = 0
    /\ heap = [b \in Blocks |-> [st |-> "none", frees |-> 0]]
    /\ nAllocs = 0 /\ nOps = 0
    /\ fault = "none"
    /\ hist = <<>>

InitCtor ==
    /\ BufIdle
    /\ c_pc = "args"
    /\ c_length \in CtorLengths
    /\ c_subStreams \in 1..MaxSubStreams
    /\ c_stride = FromNat(0) /\ c_sysElems = FromNat(0) /\ c_devElems = FromNat(0)

\* : _length(length), _subStreams(subStreams), _stride((length + 0xf) & 0xfffffff0)
CtorInitialise ==
    /\ c_pc = "args"
    /\ c_pc' = "fields"
    /\ c_stride' = AlignedStride(c_length)
    /\ UNCHANGED <<c_length, c_subStreams, c_sysElems, c_devElems, bufvars>>

\* Allocate(): new T[_subStreams * _stride], cudaMalloc(_stride * _subStreams * sizeof(T))
CtorAllocate ==
    /\ c_pc = "fields"
    /\ \E status \in Status :
          /\ c_pc' = RTERROR(status, "allocated")
          /\ c_sysElems' = ElemCount(c_stride, c_subStreams)
          /\ c_devElems' = IF status = "cudaSuccess"
                           THEN ElemCount(c_stride, c_subStreams)
                           ELSE c_devElems
    /\ UNCHANGED <<c_length, c_subStreams, c_stride, bufvars>>

NextCtor == CtorInitialise \/ CtorAllocate

SpecCtor == InitCtor /\ [][NextCtor]_vars

(***************************************************************************)
(* The claims.                                                             *)
(***************************************************************************)
\* the start state of the last public call, and of the one before it
LastCall == hist[Len(hist)]
PrevCall == hist[Len(hist) - 1]

\* the views of a recorded state are the ones Allocate() builds
Intact(h) ==
    \A j \in 0..(h.subStreams - 1) :
        j < h.tableSize /\ h.sysTab[j] = j * h.stride /\ h.devTab[j] = j * h.stride

\* position i of sub-stream j of the host buffer now holds value v
HoldsNow(j, i, v) ==
    /\ sysStreamTab[j] = j * _stride
    /\ (j * _stride + i) \in DOMAIN sysData
    /\ sysData[j * _stride + i] = v

\* the value at position i of sub-stream j of a recorded state
Held(h, j, i) == h.sysData[j * h.stride + i]

\* C1: Collapse(newSubStreams) of a buffer with length L and S sub-streams,
\* L*S divisible by newSubStreams, moves the value at position i of
\* sub-stream j to position (i*S + j) div newSubStreams of sub-stream
\* (i*S + j) mod newSubStreams of the reshaped host buffer.
C1_CollapseMovesValues ==
    (/\ pc = "live" /\ Len(hist) >= 1
     /\ LastCall.op = "Collapse"
     /\ Intact(LastCall)
     /\ (LastCall.length * LastCall.subStreams) % LastCall.arg = 0)
    => \A i \in 0..(LastCall.length - 1), j \in 0..(LastCall.subStreams - 1) :
          LET k == i * LastCall.subStreams + j
          IN  HoldsNow(k % LastCall.arg, k \div LastCall.arg, Held(LastCall, j, i))

\* C2: for a buffer with N sub-streams and M >= 1 with the element count
\* divisible both ways, Collapse(M) then Collapse(N) restores the buffer:
\* every sub-stream j < N holds the values it held, at the same positions,
\* and length and subStreams are what they were (M < N and M > N alike).
C2_CollapseRoundTrip ==
    (/\ pc = "live" /\ Len(hist) >= 2
     /\ PrevCall.op = "Collapse" /\ LastCall.op = "Collapse"
     /\ Intact(PrevCall)
     /\ LastCall.arg = PrevCall.subStreams
     /\ (PrevCall.length * PrevCall.subStreams) % PrevCall.arg = 0
     /\ (LastCall.length * LastCall.subStreams) % LastCall.arg = 0)
    => /\ _length = PrevCall.length
       /\ _subStreams = PrevCall.subStreams
       /\ \A j \in 0..(PrevCall.subStreams - 1), i \in 0..(PrevCall.length - 1) :
             HoldsNow(j, i, Held(PrevCall, j, i))

\* the product a * n as a number: the upper half is not cut to 16 bits
ExactProduct(a, n) ==
    LET lo == a.lo * n
    IN  [hi |-> a.hi * n + lo \div Half, lo |-> lo % Half]

\* st is the least multiple of 16 that is not below len
IsCeil16(len, st) ==
    /\ Leq32(len, st)
    /\ st.lo % 16 = 0
    /\ \E d \in 0..15 : Add32(len, FromNat(d)) = st

\* C3: for every unsigned length (the 15 values below 2^32 included) and
\* every subStreams >= 1, construction yields stride = ceil(length/16)*16,
\* so stride >= length, and asks for exactly stride*subStreams elements of
\* host storage and the same number of device storage.
C3_StrideAndExtent ==
    (c_pc = "allocated")
    => /\ IsCeil16(c_length, c_stride)
       /\ c_sysElems = ExactProduct(c_stride, c_subStreams)
       /\ c_devElems = ExactProduct(c_stride, c_subStreams)

\* the elements both transfers cover: _stride * _subStreams
Extent == 0..(_stride * _subStreams - 1)

\* C4: after an Upload() that returned, the device storage equals the host
\* storage on all stride*subStreams elements; after Upload() then Download()
\* every one of those host elements holds what it held before the Upload.
C4_UploadDownloadRoundTrip ==
    /\ (pc = "live" /\ Len(hist) >= 1 /\ LastCall.op = "Upload")
       => \A x \in Extent :
             /\ x \in DOMAIN sysData /\ x \in DOMAIN devData
             /\ devData[x] = sysData[x]
             /\ sysData[x] = LastCall.sysData[x]
    /\ (pc = "live" /\ Len(hist) >= 2 /\ PrevCall.op = "Upload" /\ LastCall.op = "Download")
       => \A x \in Extent :
             /\ x \in DOMAIN sysData
             /\ sysData[x] = PrevCall.sysData[x]
             /\ devData[x] = PrevCall.sysData[x]

\* C4's case: a reshaped buffer went up and came down again
C4_Witness ==
    /\ pc = "live" /\ Len(hist) >= 2 /\ nOps >= 3
    /\ PrevCall.op = "Upload" /\ LastCall.op = "Download"
    /\ _subStreams # tableSize
    /\ \E x \in Extent : PrevCall.devData[x] # PrevCall.sysData[x]

\* the CUDA call whose error status reached RTERROR was a copy
CopyFault == fault \in {"cudaMemcpyHostToDevice", "cudaMemcpyDeviceToHost"}

\* the host blocks of the latest Allocate() are still allocated
HostRetained ==
    \A k \in Kinds \ {"devData"} :
        heap[<<nAllocs, k>>].st = "live" /\ heap[<<nAllocs, k>>].frees = 0

C7_ViewsFollowStride ==
    (pc = "live" /\ nAllocs = 1 /\ _pSysStream # 0)
    => \A i \in 0..(_subStreams - 1) :
          sysStreamTab[i] = i * _stride /\ devStreamTab[i] = i * _stride

\* C8: when a buffer is destroyed, its host storage, its device storage and
\* both view tables are each released exactly once, whatever public calls
\* came before: no block is released twice, and none is left allocated.
C8_ReleasedExactlyOnce ==
    /\ \A b \in Blocks : heap[b].frees <= 1
    /\ (pc = "destroyed") => \A b \in Blocks : heap[b].st # "live"

\* C9: Collapse leaves every element of the device storage as it was; after
\* the Upload() that follows, the device storage equals the reshaped host
\* storage over the new stride*subStreams elements.
C9_CollapseLeavesDevice ==
    /\ (Len(hist) >= 1 /\ LastCall.op = "Collapse")
       => devData = LastCall.devData
    /\ (pc = "live" /\ Len(hist) >= 2 /\ PrevCall.op = "Collapse" /\ LastCall.op = "Upload")
       => /\ <<_stride, _subStreams>> =
                <<(PrevCall.stride * PrevCall.subStreams) \div PrevCall.arg, PrevCall.arg>>
          /\ \A x \in DOMAIN devData :
                devData[x] = IF x \in Extent THEN sysData[x] ELSE PrevCall.devData[x]

\* C9's case: a Collapse changed the host storage, the device storage kept
\* the layout from before, and an Upload then brought it up to date
C9_Witness ==
    /\ pc = "live" /\ Len(hist) >= 2
    /\ PrevCall.op = "Collapse" /\ LastCall.op = "Upload"
    /\ LastCall.sysData # PrevCall.sysData
    /\ LastCall.devData = PrevCall.devData
    /\ devData # LastCall.devData

\* C10: when length*subStreams is not divisible by newSubStreams, Collapse
\* truncates: with newLength = (length*subStreams) div newSubStreams, value
\* k of the row-major traversal is at position k div newSubStreams of
\* sub-stream k mod newSubStreams for every k < newLength*newSubStreams,
\* also when length = stride.  Stated for the calls that store no table
\* entry behind the end of the tables.
C10_TruncatesCleanly ==
    (/\ pc = "live" /\ Len(hist) >= 1
     /\ LastCall.op = "Collapse"
     /\ Intact(LastCall)
     /\ LastCall.arg <= LastCall.tableSize
     /\ (LastCall.length * LastCall.subStreams) % LastCall.arg # 0)
    => /\ _length = (LastCall.length * LastCall.subStreams) \div LastCall.arg
       /\ \A k \in 0..(_length * LastCall.arg - 1) :
             HoldsNow(k % LastCall.arg, k \div LastCall.arg,
                      Held(LastCall, k % LastCall.subStreams, k \div LastCall.subStreams))

\* no Collapse has been called on the buffer so far
NeverCollapsed ==
    /\ nOps = Len(hist)
    /\ \A n \in 1..Len(hist) : hist[n].op # "Collapse"

\* C11 as claimed: the stride is a multiple of 16 in every reachable state,
\* at construction and after any sequence of Collapse calls.
C11_StrideAlwaysAligned ==
    (pc = "live") => _stride % 16 = 0

\* C11 as the code has it: the stride is a multiple of 16 from construction
\* until the first Collapse; a Collapse(newstreams) that returns sets it to
\* (stride * subStreams) div newstreams, whatever that is modulo 16.
C11_StrideAlignedUntilCollapse ==
    /\ (pc = "live" /\ NeverCollapsed) => _stride % 16 = 0
    /\ (pc = "live" /\ Len(hist) >= 1 /\ LastCall.op = "Collapse")
       => _stride = (LastCall.stride * LastCall.subStreams) \div LastCall.arg

\* C11's case: a Collapse took an aligned stride to one that is not
C11_Witness ==
    /\ pc = "live" /\ Len(hist) >= 1
    /\ LastCall.op = "Collapse"
    /\ LastCall.stride % 16 = 0
    /\ _stride % 16 # 0

\* the indices new T*[_subStreams] gave each view table
TableIndices == 0..(tableSize - 1)

\* C12: Collapse never writes a view-table entry outside the table: the
\* tables keep the size they were allocated with, every index the remap
\* step of a Collapse(newstreams) stores at is below that size, and so no
\* slot behind the end of a table ever holds an entry.
C12_RemapStaysInTable ==
    /\ (Len(hist) >= 1 /\ LastCall.op = "Collapse" /\ _pSysStream # 0)
       => /\ tableSize = LastCall.tableSize
          /\ RemapIndices(LastCall.arg) \subseteq TableIndices
    /\ (pc = "live" /\ _pSysStream # 0)
       => \A i \in TabSlots \ TableIndices :
             sysStreamTab[i] = Unset /\ devStreamTab[i] = Unset

\* the number a is not above the unsigned int b (a may exceed 32 bits)
Within32(a, b) == a.hi < b.hi \/ (a.hi = b.hi /\ a.lo <= b.lo)

\* C13: after construction (and any Collapse calls) length <= stride and
\* stride*subStreams is not above the number of elements allocated, so that
\* the extent of every Upload and Download lies within both allocations.
\* Stated for the freshly constructed buffer, on the whole range of lengths.
C13_ExtentWithinAllocation ==
    (c_pc = "allocated")
    => /\ Leq32(c_length, c_stride)
       /\ Within32(ExactProduct(c_stride, c_subStreams), c_sysElems)
       /\ Within32(ExactProduct(c_stride, c_subStreams), c_devElems)

\* the last call was a Collapse and it returned
Collapsed == pc = "live" /\ Len(hist) >= 1 /\ LastCall.op = "Collapse"

\* the indices of the scratch array new T[_subStreams * _stride] of the
\* last Collapse
TempIndices == 0..(LastCall.stride * LastCall.subStreams - 1)

\* C14: during a Collapse every scratch index, stream*newstride+pos in the
\* first loop and j*newstride+i in the copy back, is below the
\* subStreams*stride the call started with, and every host element the copy
\* back writes lies inside the host storage.
C14_CollapseStaysInBounds ==
    Collapsed
    => /\ \A k \in 0..(LastCall.length * LastCall.subStreams - 1) :
              TempStoreIndex(k, _subStreams, _stride) \in TempIndices
       /\ \A i \in 0..(_length - 1), j \in 0..(_subStreams - 1) :
              /\ TempLoadIndex(j, i, _stride) \in TempIndices
              /\ HostStoreTarget(sysStreamTab, j, i) \in DOMAIN sysData

====
